---- MODULE Spec2Model ----
(***************************************************************************)
(* Model of mingw-cross/cmake-win-on-linux.py, the script that builds the  *)
(* LAMMPS Windows installer packages.  The script is one linear run:       *)
(* parse the command line, validate it, recreate the working directory,    *)
(* update the git checkout, configure and build, collect and convert the   *)
(* files, build the installer, clean up.  A state of the model is the      *)
(* script's module-level variables, its position (pc), the part of the     *)
(* filesystem it owns and the log of the external commands it has run.     *)
(*                                                                         *)
(* Strings are TLA+ strings; TLC evaluates Len, \o and SubSeq on them, so  *)
(* formatting, the boolean vocabulary and the regular expressions are      *)
(* computed character by character.                                        *)
(*                                                                         *)
(* argv is read once, left to right, two tokens per loop iteration: the    *)
(* model draws argv[i] and argv[i+1] when the loop reads them (arg, val).  *)
(***************************************************************************)
EXTENDS Integers, Sequences, FiniteSets, TLC

VARIABLES
    pc,          \* position of the run: parse, workdir, sync, ..., exit
    argc,        \* len(sys.argv)
    i,           \* index of the flag the parsing loop reads next
    arg,         \* argv[i] of the last loop iteration ("" outside the loop)
    val,         \* argv[i+1] of the last loop iteration
    bitflag, numcpus, parflag, thrflag, pythonflag, guiflag,
    revflag, verbose, gitdir, adminflag, msixflag,
    builddir,    \* "" until computed
    nsisfile,    \* "" until selected
    version,     \* "" until derived
    dirExists,   \* the working directory exists, created by this run
    deletedOld,  \* rmtree removed a directory left by an earlier run
    files,       \* paths of the files in the working directory
    cmds,        \* the command lines handed to system(), in order
    downloads,   \* the URLs fetched by getexe(), in order
    errkind,     \* none | usage | bool | validation | mkdir | command | exception
    diag,        \* the lines printed on the failure path
    exitStatus,  \* exit status of the process, -1 while it runs
    runs,        \* two invocations started from the same directory
    workdirs,    \* the working directories below it, each with its creator
    clobbered    \* invocations whose directory another one removed mid-build

flagvars == <<bitflag, numcpus, parflag, thrflag, pythonflag, guiflag,
              revflag, verbose, gitdir, adminflag, msixflag>>
envvars  == <<builddir, nsisfile, version, dirExists, deletedOld, files,
              cmds, downloads>>
vars == <<pc, argc, i, arg, val, flagvars, envvars, errkind, diag, exitStatus>>
convars == <<runs, workdirs, clobbered>>

----------------------------------------------------------------------------
(* Bounds of the model *)

\* at most MaxPairs "-flag value" pairs on the command line
MaxPairs == 3

----------------------------------------------------------------------------
(* Strings *)

Ch(s, k) == SubSeq(s, k, k)

StartsWith(s, p) == Len(s) >= Len(p) /\ SubSeq(s, 1, Len(p)) = p

EndsWith(s, p) == Len(s) >= Len(p) /\ SubSeq(s, Len(s) - Len(p) + 1, Len(s)) = p

Digits == {"0","1","2","3","4","5","6","7","8","9"}

AllIn(s, set) == \A k \in 1..Len(s) : Ch(s, k) \in set

DigitVal(c) ==
    CASE c = "0" -> 0 [] c = "1" -> 1 [] c = "2" -> 2 [] c = "3" -> 3
      [] c = "4" -> 4 [] c = "5" -> 5 [] c = "6" -> 6 [] c = "7" -> 7
      [] c = "8" -> 8 [] c = "9" -> 9

\* int(s) succeeds on an optionally signed run of digits (surrounding
\* whitespace and underscores are not among the modelled tokens)
IsInt(s) ==
    LET body == IF Len(s) > 0 /\ Ch(s, 1) \in {"+", "-"}
                THEN SubSeq(s, 2, Len(s)) ELSE s
    IN  Len(body) > 0 /\ AllIn(body, Digits)

RECURSIVE NatOf(_)
NatOf(s) == IF Len(s) = 0 THEN 0
            ELSE 10 * NatOf(SubSeq(s, 1, Len(s) - 1)) + DigitVal(Ch(s, Len(s)))

int(s) ==
    IF Ch(s, 1) = "-" THEN 0 - NatOf(SubSeq(s, 2, Len(s)))
    ELSE IF Ch(s, 1) = "+" THEN NatOf(SubSeq(s, 2, Len(s)))
    ELSE NatOf(s)

----------------------------------------------------------------------------
(* Environment of the run *)

\* sys.argv[0]
argv0 == "cmake-win-on-linux.py"

\* directory of the script (homedir) and the current directory
homedir == "/home/builder/lammps-packages/mingw-cross"
cwd == "/home/builder/work"

join(a, b) == IF StartsWith(b, "/") THEN b ELSE a \o "/" \o b

\* os.path.abspath(os.path.expanduser(path)) on paths without "~", "." or ".."
fullpath(path) == IF path = "." THEN cwd ELSE join(cwd, path)

helpmsg == "Usage: python cmake-win-on-linux.py -b <bits> -j <cpus> -p <mpi> -t <thread> -y <yes|no> -r <rev> -v <yes|no> -g <folder> -a <yes|no>"

----------------------------------------------------------------------------
(* getbool *)

getbool_caseless(a, keyword) ==
    IF a \in {"yes","Yes","YES","Y","y","on","On","ON","1","True","true","TRUE"}
    THEN [err |-> FALSE, value |-> TRUE, msg |-> ""]
    ELSE IF a \in {"no","No","NO","nO","N","n","off","Off","OFF","0","False","false","FALSE"}
    THEN [err |-> FALSE, value |-> FALSE, msg |-> ""]
    ELSE [err |-> TRUE, value |-> FALSE,
          msg |-> "Unknown " \o keyword \o " option: " \o a]

\* err: error() was called with msg; otherwise value is returned
getbool(a, keyword) ==
    IF a \in {"yes","Yes","Y","y","on","1","True","true"}
    THEN [err |-> FALSE, value |-> TRUE, msg |-> ""]
    ELSE IF a \in {"no","No","N","n","off","0","False","false"}
    THEN [err |-> FALSE, value |-> FALSE, msg |-> ""]
    ELSE [err |-> TRUE, value |-> FALSE,
          msg |-> "Unknown " \o keyword \o " option: " \o a]

----------------------------------------------------------------------------
(* Revision patterns *)

Months == {"Jan","Feb","Mar","Apr","May","Jun","Jul","Aug","Sep","Oct","Nov","Dec"}

HexLower == Digits \cup {"a","b","c","d","e","f"}

\* "$" of a Python pattern also matches just before a final newline (no
\* modelled token ends in one)
Chomp(s) == IF EndsWith(s, "\n") THEN SubSeq(s, 1, Len(s) - 1) ELSE s

\* ^(stable|release|develop|maintenance)$
rev1(s) == Chomp(s) \in {"stable", "release", "develop", "maintenance"}

\* <digits><Mon><4 digits>, the digits being ASCII
DatedTail(t) ==
    /\ Len(t) >= 8
    /\ AllIn(SubSeq(t, Len(t) - 3, Len(t)), Digits)
    /\ SubSeq(t, Len(t) - 6, Len(t) - 4) \in Months
    /\ AllIn(SubSeq(t, 1, Len(t) - 7), Digits)

\* ^(patch|stable)_\d+(Jan|...|Dec)\d{4}$
rev2(s) ==
    LET t == Chomp(s)
    IN  \E p \in {"patch_", "stable_"} :
            StartsWith(t, p) /\ DatedTail(SubSeq(t, Len(p) + 1, Len(t)))

\* ^[a-f0-9]{40}$
rev3(s) == LET t == Chomp(s) IN Len(t) = 40 /\ AllIn(t, HexLower)

----------------------------------------------------------------------------
(* The command line: the tokens the parsing loop may read *)

KnownFlags == {"-b", "-j", "-p", "-t", "-y", "-u", "-r", "-v", "-a", "-g"}

\* "-x" stands for every flag the loop does not know
ArgTokens == KnownFlags \cup {"-x"}

BoolTokens ==
    {"yes","Yes","Y","y","on","1","True","true",
     "no","No","N","n","off","0","False","false",
     "YES","On","OFF","TRUE","nO","maybe"}

hexdigits10 == "0123456789"
hash40 == "7d2f" \o hexdigits10 \o "abcdef" \o hexdigits10 \o hexdigits10
HASH40 == "7D2F" \o hexdigits10 \o "ABCDEF" \o hexdigits10 \o hexdigits10

RevTokens ==
    {"stable", "release", "develop", "maintenance",
     "patch_15Mar2024", "stable_01Jan2023", "maintenance_15Mar2024",
     hash40, HASH40, SubSeq(hash40, 1, 39), hash40 \o "0",
     "foo", "patch_Mar2024", "patch_15mar2024", "patch_15Mar24",
     "release_15Mar2024"}

ValueTokens(a) ==
    CASE a = "-b" -> {"32", "64", "16"}
      [] a = "-j" -> {"4", "x"}
      [] a = "-p" -> {"no", "mpi", "ms", "openmpi"}
      [] a = "-t" -> {"no", "omp", "yes"}
      [] a \in {"-y", "-u", "-v"} -> BoolTokens
      [] a = "-r" -> RevTokens
      [] a = "-a" -> BoolTokens \cup {"msix", "MSIX", "Msix"}
      [] a = "-g" -> {"lammps-git"}
      [] OTHER -> {"1"}

----------------------------------------------------------------------------
(* Initial state: the defaults of the script *)

\* the defaults, for a command line of argc tokens
InitRun ==
    /\ pc = "parse"
    /\ argc \in 1..(2 * MaxPairs + 1)
    /\ i = 1
    /\ arg = "" /\ val = ""
    /\ bitflag = "64"
    /\ numcpus = 1
    /\ parflag = "no"
    /\ pythonflag = FALSE
    /\ guiflag = FALSE
    /\ thrflag = "omp"
    /\ revflag = "stable"
    /\ verbose = FALSE
    /\ gitdir = join(homedir, "lammps")
    /\ adminflag = TRUE
    /\ msixflag = FALSE
    /\ builddir = "" /\ nsisfile = "" /\ version = ""
    /\ dirExists = FALSE /\ deletedOld = FALSE
    /\ files = {}
    /\ cmds = <<>> /\ downloads = <<>>
    /\ errkind = "none" /\ diag = <<>> /\ exitStatus = -1

Init ==
    /\ InitRun
    /\ runs = <<>> /\ workdirs = {} /\ clobbered = {}

----------------------------------------------------------------------------
(* Leaving the run *)

\* error(str): print the usage text or the message, then sys.exit(), whose
\* missing argument makes the exit status 0
error(kind, before, str) ==
    /\ pc' = "exit"
    /\ errkind' = kind
    /\ diag' = before \o (IF str = "" THEN <<helpmsg>>
                          ELSE <<argv0 \o " ERROR: " \o str>>)
    /\ exitStatus' = 0

\* An exception nothing catches: traceback, exit status 1
uncaught(what) ==
    /\ pc' = "exit"
    /\ errkind' = "exception"
    /\ diag' = <<"Traceback (most recent call last): " \o what>>
    /\ exitStatus' = 1

----------------------------------------------------------------------------
(* The parsing loop, one iteration *)

keyword(a) ==
    CASE a = "-y" -> "python" [] a = "-u" -> "gui"
      [] a = "-v" -> "verbose" [] a = "-a" -> "admin" [] OTHER -> ""

MsixTokens == {"msix", "MSIX"}

\* the -a branch with the reset of msixflag left out
ParseAdmin_keep(v) ==
    IF v \in MsixTokens
    THEN [err |-> FALSE, admin |-> FALSE, msix |-> TRUE, msg |-> ""]
    ELSE LET b == getbool(v, "admin")
         IN  [err |-> b.err, admin |-> b.value, msix |-> msixflag, msg |-> b.msg]

\* the -a branch: the values of adminflag and msixflag it assigns
ParseAdmin(v) ==
    IF v \in MsixTokens
    THEN [err |-> FALSE, admin |-> FALSE, msix |-> TRUE, msg |-> ""]
    ELSE LET b == getbool(v, "admin")
         IN  [err |-> b.err, admin |-> b.value, msix |-> FALSE, msg |-> b.msg]

ParseArg ==
    /\ pc = "parse"
    /\ UNCHANGED convars
    /\ i < argc
    /\ \E a \in ArgTokens :
        IF i + 1 >= argc
        THEN /\ arg' = a /\ val' = ""
             /\ error("usage", <<"Missing argument to flag: " \o a>>, "")
             /\ UNCHANGED <<argc, i, flagvars, envvars>>
        ELSE \E v \in ValueTokens(a) :
             LET b == IF a = "-a" THEN ParseAdmin(v) ELSE getbool(v, keyword(a))
                 usesbool == a \in {"-y", "-u", "-v", "-a"}
             IN  /\ arg' = a /\ val' = v
                 /\ UNCHANGED <<argc, envvars>>
                 /\ IF a \notin KnownFlags
                    THEN /\ error("usage", <<"Unknown flag: " \o a>>, "")
                         /\ UNCHANGED <<i, flagvars>>
                    ELSE IF usesbool /\ b.err
                    THEN /\ error("bool", <<>>, b.msg)
                         /\ UNCHANGED <<i, flagvars>>
                    ELSE IF a = "-j" /\ ~IsInt(v)
                    THEN /\ uncaught("ValueError: invalid literal for int(): " \o v)
                         /\ UNCHANGED <<i, flagvars>>
                    ELSE /\ bitflag' = IF a = "-b" THEN v ELSE bitflag
                         /\ numcpus' = IF a = "-j" THEN int(v) ELSE numcpus
                         /\ parflag' = IF a = "-p" THEN v ELSE parflag
                         /\ thrflag' = IF a = "-t" THEN v ELSE thrflag
                         /\ pythonflag' = IF a = "-y" THEN b.value ELSE pythonflag
                         /\ guiflag' = IF a = "-u" THEN b.value ELSE guiflag
                         /\ revflag' = IF a = "-r" THEN v ELSE revflag
                         /\ verbose' = IF a = "-v" THEN b.value ELSE verbose
                         /\ adminflag' = IF a = "-a" THEN b.admin ELSE adminflag
                         /\ msixflag' = IF a = "-a" THEN b.msix ELSE msixflag
                         /\ gitdir' = IF a = "-g" THEN fullpath(v) ELSE gitdir
                         /\ i' = i + 2
                         /\ UNCHANGED <<pc, errkind, diag, exitStatus>>

----------------------------------------------------------------------------
(* The checks after the loop *)

\* the message of the first check that fails, "" when all pass
ValidationError_nomutex(bits, par, thr, py, gui, rev) ==
    IF bits # "32" /\ bits # "64" THEN "Unsupported bitness flag " \o bits
    ELSE IF par # "no" /\ par # "mpi" /\ par # "ms"
    THEN "Unsupported parallel flag " \o par
    ELSE IF thr # "no" /\ thr # "omp" THEN "Unsupported threading flag " \o thr
    ELSE IF ~rev1(rev) /\ ~rev2(rev) /\ ~rev3(rev)
    THEN "Unsupported revision flag " \o rev
    ELSE ""

ValidationError(bits, par, thr, py, gui, rev) ==
    IF bits # "32" /\ bits # "64" THEN "Unsupported bitness flag " \o bits
    ELSE IF par # "no" /\ par # "mpi" /\ par # "ms"
    THEN "Unsupported parallel flag " \o par
    ELSE IF thr # "no" /\ thr # "omp" THEN "Unsupported threading flag " \o thr
    ELSE IF py /\ gui THEN "May only include either Python or LAMMPS GUI"
    ELSE IF ~rev1(rev) /\ ~rev2(rev) /\ ~rev3(rev)
    THEN "Unsupported revision flag " \o rev
    ELSE ""

\* the working directory made before the checks are done
Checks_late ==
    /\ pc = "parse"
    /\ UNCHANGED convars
    /\ ~(i < argc)
    /\ arg' = "" /\ val' = ""
    /\ LET msg == ValidationError(bitflag, parflag, thrflag,
                                  pythonflag, guiflag, revflag)
       IN  IF msg # ""
           THEN /\ error("validation", <<>>, msg)
                /\ dirExists' = TRUE
           ELSE /\ pc' = "workdir"
                /\ UNCHANGED <<errkind, diag, exitStatus, dirExists>>
    /\ UNCHANGED <<argc, i, flagvars, builddir, nsisfile, version, deletedOld,
                   files, cmds, downloads>>

Checks ==
    /\ pc = "parse"
    /\ UNCHANGED convars
    /\ ~(i < argc)
    /\ arg' = "" /\ val' = ""
    /\ LET msg == ValidationError(bitflag, parflag, thrflag,
                                  pythonflag, guiflag, revflag)
       IN  IF msg # ""
           THEN error("validation", <<>>, msg)
           ELSE /\ pc' = "workdir"
                /\ UNCHANGED <<errkind, diag, exitStatus>>
    /\ UNCHANGED <<argc, i, flagvars, envvars>>

----------------------------------------------------------------------------
(* The working directory *)

fmt4(bits, par, thr, rev) == "tmp-" \o bits \o "-" \o par \o "-" \o thr \o "-" \o rev

BuildDirName_flat(bits, par, thr, rev, admin, py, gui, msix) ==
    IF py THEN fmt4(bits, par, thr, rev) \o "-python"
    ELSE IF gui THEN fmt4(bits, par, thr, rev) \o "-gui"
    ELSE IF msix THEN fmt4(bits, par, thr, rev) \o "-msix"
    ELSE IF admin THEN fmt4(bits, par, thr, rev)
    ELSE fmt4(bits, par, thr, rev) \o "-noadmin"

BuildDirName(bits, par, thr, rev, admin, py, gui, msix) ==
    IF admin THEN fmt4(bits, par, thr, rev)
    ELSE IF py THEN fmt4(bits, par, thr, rev) \o "-python"
    ELSE IF gui THEN fmt4(bits, par, thr, rev) \o "-gui"
    ELSE IF msix THEN fmt4(bits, par, thr, rev) \o "-msix"
    ELSE fmt4(bits, par, thr, rev) \o "-noadmin"

\* rmtree(builddir, True) removes what an earlier run left (old), then mkdir
\* makes the directory or raises, which is the fatal error of line 205
CreateWorkdir ==
    /\ pc = "workdir"
    /\ UNCHANGED convars
    /\ LET dir == join(fullpath("."),
                       BuildDirName(bitflag, parflag, thrflag, revflag,
                                    adminflag, pythonflag, guiflag, msixflag))
       IN  /\ builddir' = dir
           /\ \E old \in BOOLEAN : deletedOld' = old
           /\ \E made \in BOOLEAN :
                IF made
                THEN /\ dirExists' = TRUE
                     /\ pc' = "sync"
                     /\ UNCHANGED <<errkind, diag, exitStatus>>
                ELSE /\ error("mkdir", <<>>,
                              "Cannot create temporary build folder: " \o dir)
                     /\ UNCHANGED dirExists
    /\ UNCHANGED <<argc, i, arg, val, flagvars, nsisfile, version, files,
                   cmds, downloads>>

----------------------------------------------------------------------------
(* system(): the commands of a stage run in order until one returns nonzero *)

Min(a, b) == IF a <= b THEN a ELSE b

\* the commands invoked when the first k of list return zero
Ran(list, k) == SubSeq(list, 1, Min(k + 1, Len(list)))

\* a failing command whose exit is swallowed: the run goes on
AfterCommands_goon(list, k, next) ==
    /\ cmds' = cmds \o list
    /\ pc' = next
    /\ errkind' = IF k < Len(list) THEN "command" ELSE errkind
    /\ diag' = IF k < Len(list)
               THEN <<"Command '" \o list[k + 1] \o "' returned non-zero exit status">>
               ELSE diag
    /\ UNCHANGED exitStatus

\* CalledProcessError: print the command, then error() with its output
\* (an empty output would print the usage text instead; not modelled)
AfterCommands(list, k, next) ==
    /\ cmds' = cmds \o Ran(list, k)
    /\ IF k < Len(list)
       THEN error("command",
                  <<"Command '" \o list[k + 1] \o "' returned non-zero exit status">>,
                  "output of " \o list[k + 1])
       ELSE /\ pc' = next
            /\ UNCHANGED <<errkind, diag, exitStatus>>

----------------------------------------------------------------------------
(* create/update git checkout *)

MovingRevs == {"develop", "stable", "release", "maintenance"}

SyncCommands(present) ==
    (IF present THEN <<>>
     ELSE <<"git clone https://github.com/lammps/lammps.git " \o gitdir>>)
    \o <<"git fetch origin", "git checkout " \o revflag>>
    \o (IF revflag \in MovingRevs THEN <<"git pull">> ELSE <<>>)

\* present: os.path.exists(gitdir)
SourceSync ==
    /\ pc = "sync"
    /\ UNCHANGED convars
    /\ \E present \in BOOLEAN :
         LET list == SyncCommands(present)
         IN  \E k \in 0..Len(list) : AfterCommands(list, k, "download")
    /\ UNCHANGED <<argc, i, arg, val, flagvars, builddir, nsisfile, version,
                   dirExists, deletedOld, files, downloads>>

----------------------------------------------------------------------------
(* download what is not automatically downloaded by CMake *)

url == "http://download.lammps.org/thirdparty"

DownloadUrls ==
    <<url \o "/ffmpeg-win" \o bitflag \o ".exe.gz", url \o "/gzip.exe.gz">>

\* getexe raises when the download fails; nothing catches it
Download ==
    /\ pc = "download"
    /\ UNCHANGED convars
    /\ \E k \in 0..2 :
         /\ downloads' = downloads \o Ran(DownloadUrls, k)
         /\ files' = files \cup (IF k >= 1 THEN {"ffmpeg.exe"} ELSE {})
                           \cup (IF k >= 2 THEN {"gzip.exe"} ELSE {})
         /\ IF k < 2
            THEN uncaught("URLError: " \o DownloadUrls[k + 1])
            ELSE /\ pc' = "build"
                 /\ UNCHANGED <<errkind, diag, exitStatus>>
    /\ UNCHANGED <<argc, i, arg, val, flagvars, builddir, nsisfile, version,
                   dirExists, deletedOld, cmds>>

----------------------------------------------------------------------------
(* configure and build: LAMMPS, the demo plugins, the plugin packages *)

mpiflag == IF parflag = "mpi" \/ parflag = "ms" THEN "on" ELSE "off"
ompflag == IF thrflag = "omp" THEN "on" ELSE "off"
msmpi == IF parflag = "ms" THEN " -DUSE_MSMPI=on" ELSE ""
mpiomp == " -DBUILD_SHARED_LIBS=on -DBUILD_MPI=" \o mpiflag \o " -DBUILD_OMP=" \o ompflag

ConfigureCommand ==
    "mingw" \o bitflag \o "-cmake -D CMAKE_BUILD_TYPE=Release"
    \o " -D ADD_PKG_CONFIG_PATH=" \o homedir \o "/mingw" \o bitflag \o "-pkgconfig"
    \o " -C " \o homedir \o "/mingw" \o bitflag \o "-pkgconfig/addpkg.cmake"
    \o " -C " \o gitdir \o "/cmake/presets/mingw-cross.cmake -S " \o gitdir \o "/cmake"
    \o (IF bitflag = "64"
        THEN " -C " \o gitdir \o "/cmake/presets/kokkos-openmp.cmake" ELSE "")
    \o mpiomp \o msmpi
    \o (IF guiflag
        THEN " -DBUILD_LAMMPS_GUI=on -DQt5_DIR=/usr/x86_64-w64-mingw32/sys-root/mingw/lib/cmake/Qt5"
        ELSE "")
    \o " -DWITH_GZIP=on -DWITH_FFMPEG=on -DLAMMPS_EXCEPTIONS=on"
    \o " -DINTEL_LRT_MODE=c++11 -DBUILD_LAMMPS_SHELL=on"
    \o " -DCMAKE_CXX_COMPILER_LAUNCHER=ccache"
    \o " -DPKG_PLUGIN=yes -DPKG_PLUMED=yes"
    \o (IF pythonflag THEN " -DPKG_PYTHON=yes" ELSE "")

PluginCommands ==
    << "mingw" \o bitflag \o "-cmake -D CMAKE_BUILD_TYPE=Release"
       \o " -S " \o gitdir \o "/examples/plugins -B plugins"
       \o mpiomp \o msmpi \o " -DCMAKE_CXX_COMPILER_LAUNCHER=ccache",
       "cmake --build plugins" >>

PaceCommands ==
    << "mingw" \o bitflag \o "-cmake -D CMAKE_BUILD_TYPE=Release"
       \o " -S " \o gitdir \o "/examples/PACKAGES/pace/plugin -B paceplugin"
       \o mpiomp
       \o " -DCMAKE_CXX_COMPILER_LAUNCHER=ccache -DLAMMPS_SOURCE_DIR=" \o gitdir \o "/src"
       \o msmpi,
       "cmake --build paceplugin --target package",
       "git clone -b " \o revflag \o " --depth 1 git@github.com:lammps/lammps-plugins.git",
       "mingw" \o bitflag \o "-cmake -D CMAKE_BUILD_TYPE=Release"
       \o " -S lammps-plugins -B build_plugins"
       \o mpiomp
       \o " -DCMAKE_CXX_COMPILER_LAUNCHER=ccache -DLAMMPS_SOURCE_DIR=" \o gitdir \o "/src"
       \o msmpi,
       "cmake --build build_plugins --target package" >>

BuildCommands ==
    <<ConfigureCommand, "cmake --build . --parallel 8">>
    \o PluginCommands
    \o (IF ~adminflag /\ ~pythonflag /\ ~msixflag /\ ~guiflag
        THEN PaceCommands ELSE <<>>)

\* qt.conf is written once the configuration has succeeded; the installers
\* of the plugin packages are moved to the parent directory, outside the model
Build ==
    /\ pc = "build"
    /\ UNCHANGED convars
    /\ \E k \in 0..Len(BuildCommands) :
         /\ AfterCommands(BuildCommands, k, "collect")
         /\ files' = files \cup (IF guiflag /\ k >= 1 THEN {"qt.conf"} ELSE {})
    /\ UNCHANGED <<argc, i, arg, val, flagvars, builddir, nsisfile, version,
                   dirExists, deletedOld, downloads>>

----------------------------------------------------------------------------
(* Paths *)

LastSlash(p) ==
    LET ks == {k \in 1..Len(p) : Ch(p, k) = "/"}
    IN  IF ks = {} THEN 0 ELSE CHOOSE k \in ks : \A j \in ks : j <= k

Basename(p) == SubSeq(p, LastSlash(p) + 1, Len(p))

\* p lies below one of the directories dirs
Under(p, dirs) == \E d \in dirs : StartsWith(p, d \o "/")

----------------------------------------------------------------------------
(* The checkout: the trees the files are collected from *)

DocSources ==
    {"doc/src/PDF/colvars-refman-lammps.pdf", "tools/createatoms/Manual.pdf",
     "doc/src/PDF/kspace.pdf", "doc/src/PDF/pair_gayberne_extra.pdf",
     "doc/src/PDF/pair_resquared_extra.pdf", "doc/src/PDF/PDLammps_overview.pdf",
     "doc/src/PDF/PDLammps_EPS.pdf", "doc/src/PDF/PDLammps_VES.pdf",
     "doc/src/PDF/SPH_LAMMPS_userguide.pdf",
     "doc/src/PDF/MACHDYN_LAMMPS_userguide.pdf", "doc/src/PDF/CG-DNA.pdf"}

\* a checkout holding plain names, names that already carry a suffix, and
\* a README beside a README.txt
TreeFull ==
    DocSources \cup
    {"README", "LICENSE", "src/version.h",
     "examples/README", "examples/melt/in.melt", "examples/kim/in.kim",
     "examples/min/README", "examples/min/README.txt", "examples/min/in.min.lmp",
     "examples/READMEs", "bench/README", "bench/in.lj", "bench/log.in.lj",
     "bench/KEPLER/README",
     "tools/README", "tools/msi2lmp/README", "tools/msi2lmp/test/in.test",
     "potentials/README", "potentials/README.md", "potentials/C_10_10.mesocnt",
     "python/README", "python/lammps/core.py"}

\* a revision from before some of the documents existed
TreeOld == {"README", "LICENSE", "src/version.h", "examples/README", "bench/in.lj"}

SrcTrees == {TreeFull, TreeOld}

\* sources of shutil.copy, with their names in the working directory
CopyList ==
    {<<"README", "README.txt">>, <<"LICENSE", "LICENSE.txt">>,
     <<"doc/src/PDF/colvars-refman-lammps.pdf", "Colvars-Manual.pdf">>,
     <<"tools/createatoms/Manual.pdf", "CreateAtoms-Manual.pdf">>,
     <<"doc/src/PDF/kspace.pdf", "Kspace-Extra-Info.pdf">>,
     <<"doc/src/PDF/pair_gayberne_extra.pdf", "PairGayBerne-Manual.pdf">>,
     <<"doc/src/PDF/pair_resquared_extra.pdf", "PairReSquared-Manual.pdf">>,
     <<"doc/src/PDF/PDLammps_overview.pdf", "PDLAMMPS-Overview.pdf">>,
     <<"doc/src/PDF/PDLammps_EPS.pdf", "PDLAMMPS-EPS.pdf">>,
     <<"doc/src/PDF/PDLammps_VES.pdf", "PDLAMMPS-VES.pdf">>,
     <<"doc/src/PDF/SPH_LAMMPS_userguide.pdf", "SPH-Manual.pdf">>,
     <<"doc/src/PDF/MACHDYN_LAMMPS_userguide.pdf", "MACHDYN-Manual.pdf">>,
     <<"doc/src/PDF/CG-DNA.pdf", "CG-DNA-Manual.pdf">>}

\* copytree of examples, bench, tools, python/lammps and potentials
CopiedTrees(tree) ==
    {p \in tree : Under(p, {"examples", "bench", "tools", "python/lammps",
                            "potentials"})}

Prune(fs) ==
    {p \in fs :
        /\ ~Under(p, {"examples/accelerate", "examples/kim", "examples/mscg",
                      "examples/PACKAGES/quip", "examples/PACKAGES/vtk",
                      "bench/FERMI", "bench/KEPLER", "tools/msi2lmp/test"})
        /\ p \notin {"potentials/C_10_10.mesocnt", "potentials/TABTP_10_10.mesont",
                     "examples/PACKAGES/mesont/C_10_10.mesocnt",
                     "examples/PACKAGES/mesont/TABTP_10_10.mesont"}}

\* make pdf, then the copies; a source the checkout lacks makes shutil.copy
\* raise, after the trees and the earlier files were copied
Collect ==
    /\ pc = "collect"
    /\ UNCHANGED convars
    /\ \/ AfterCommands(<<"make pdf">>, 0, "convert") /\ UNCHANGED files
       \/ /\ cmds' = cmds \o <<"make pdf">>
          /\ \E tree \in SrcTrees :
               LET missing == {c \in CopyList : c[1] \notin tree}
               IN  IF missing = {}
                   THEN /\ files' = Prune(files \cup {"LAMMPS-Manual.pdf"}
                                          \cup CopiedTrees(tree)
                                          \cup {c[2] : c \in CopyList})
                        /\ pc' = "convert"
                        /\ UNCHANGED <<errkind, diag, exitStatus>>
                   ELSE /\ files' = files \cup {"LAMMPS-Manual.pdf"}
                                          \cup CopiedTrees(tree)
                                          \cup {"README.txt", "LICENSE.txt"}
                        /\ uncaught("FileNotFoundError")
    /\ UNCHANGED <<argc, i, arg, val, flagvars, builddir, nsisfile, version,
                   dirExists, deletedOld, downloads>>

----------------------------------------------------------------------------
(* convert text files, rename README and in.<name> *)

RenameDirs == {"tools", "bench", "examples", "potentials", "python"}

\* find ... -name 'README*'
RenameReadme_glob(fs) ==
    {IF Under(p, RenameDirs) /\ StartsWith(Basename(p), "README")
     THEN p \o ".txt" ELSE p : p \in fs}

\* for f in $(find tools bench examples potentials python -name README -print);
\* do mv -v $f $f.txt; done
RenameReadme(fs) ==
    {IF Under(p, RenameDirs) /\ Basename(p) = "README"
     THEN p \o ".txt" ELSE p : p \in fs}

\* for f in $(find bench examples -name in.\* -print); do mv -v $f $f.lmp; done
RenameInputs(fs) ==
    {IF Under(p, {"bench", "examples"}) /\ StartsWith(Basename(p), "in.")
     THEN p \o ".lmp" ELSE p : p \in fs}

RenameReadmeCommand ==
    "for f in $(find tools bench examples potentials python -name README -print); do  mv -v $f $f.txt; done"

ConvertCommands ==
    <<"unix2dos LICENSE.txt README.txt tools/msi2lmp/README",
      "find bench examples potentials python tools/msi2lmp/frc_files -type f -print | xargs unix2dos",
      RenameReadmeCommand,
      "for f in $(find bench examples -name in.\\* -print); do  mv -v $f $f.lmp; done">>

Convert ==
    /\ pc = "convert"
    /\ UNCHANGED convars
    /\ \E k \in 0..Len(ConvertCommands) :
         /\ AfterCommands(ConvertCommands, k, "package")
         /\ files' = IF k >= 4 THEN RenameInputs(RenameReadme(files))
                     ELSE IF k >= 3 THEN RenameReadme(files)
                     ELSE files
    /\ UNCHANGED <<argc, i, arg, val, flagvars, builddir, nsisfile, version,
                   dirExists, deletedOld, downloads>>

----------------------------------------------------------------------------
(* configure and build the installer *)

NsisTemplate_msixfirst(py, gui, admin, par, msix) ==
    IF py THEN "lammps-python.nsis"
    ELSE IF gui THEN "lammps-gui.nsis"
    ELSE IF admin THEN "lammps-admin.nsis"
    ELSE IF msix THEN "lammps-msix.nsis"
    ELSE IF par = "ms" THEN "lammps-msmpi.nsis"
    ELSE "lammps-noadmin.nsis"

NsisTemplate(py, gui, admin, par, msix) ==
    IF py THEN "lammps-python.nsis"
    ELSE IF gui THEN "lammps-gui.nsis"
    ELSE IF admin THEN "lammps-admin.nsis"
    ELSE IF par = "ms" THEN "lammps-msmpi.nsis"
    ELSE IF msix THEN "lammps-msix.nsis"
    ELSE "lammps-noadmin.nsis"

\* the three words of the first line of src/version.h, and today's date
VersionWords == {<<"LAMMPS", "2", "Aug2023">>}
Today == "2024-03-15"

mingwdir ==
    IF bitflag = "32" THEN "/usr/i686-w64-mingw32/sys-root/mingw/bin/"
    ELSE "/usr/x86_64-w64-mingw32/sys-root/mingw/bin/"

MakensisCommand(ver) ==
    "makensis -DMINGW=" \o mingwdir \o " -DVERSION=" \o ver
    \o (IF parflag = "mpi" THEN "-MPI" ELSE IF parflag = "ms" THEN "-MSMPI" ELSE "")
    \o " -DBIT=" \o bitflag \o " -DLMPREV=" \o revflag \o " lammps.nsis"

\* readable: the first line of version.h matches verexp; otherwise
\* verexp.match(...) is None and .groups() raises
Package ==
    /\ pc = "package"
    /\ UNCHANGED convars
    /\ nsisfile' = join(homedir, join("installer",
                        NsisTemplate(pythonflag, guiflag, adminflag, parflag, msixflag)))
    /\ files' = files \cup {"lammps.nsis", "FileAssociation.nsh", "lammps.ico",
                            "lammps-text-logo-wide.bmp"}
    /\ IF revflag = "stable" \/ revflag = "release" \/ rev2(revflag)
       THEN \E readable \in BOOLEAN :
              IF readable
              THEN \E w \in VersionWords :
                     /\ version' = w[1] \o w[2] \o w[3]
                     /\ \E k \in 0..1 :
                          AfterCommands(<<MakensisCommand(version')>>, k, "cleanup")
              ELSE /\ version' = revflag
                   /\ uncaught("AttributeError: 'NoneType' object has no attribute 'groups'")
                   /\ UNCHANGED cmds
       ELSE /\ version' = IF revflag = "develop" \/ revflag = "maintenance"
                          THEN Today ELSE revflag
            /\ \E k \in 0..1 :
                 AfterCommands(<<MakensisCommand(version')>>, k, "cleanup")
    /\ UNCHANGED <<argc, i, arg, val, flagvars, builddir, dirExists, deletedOld,
                   downloads>>

----------------------------------------------------------------------------
(* clean up after successful build *)

Cleanup ==
    /\ pc = "cleanup"
    /\ UNCHANGED convars
    /\ dirExists' = FALSE
    /\ files' = {}
    /\ pc' = "exit"
    /\ exitStatus' = 0
    /\ UNCHANGED <<argc, i, arg, val, flagvars, builddir, nsisfile, version,
                   deletedOld, cmds, downloads, errkind, diag>>

----------------------------------------------------------------------------

Next ==
    \/ ParseArg
    \/ Checks
    \/ CreateWorkdir
    \/ SourceSync
    \/ Download
    \/ Build
    \/ Collect
    \/ Convert
    \/ Package
    \/ Cleanup

Spec == Init /\ [][Next]_<<vars, convars>>

----------------------------------------------------------------------------
(* Properties *)

Failed == pc = "exit" /\ errkind # "none"
Succeeded == pc = "exit" /\ errkind = "none"

\* C1: every failure outcome of a run (usage error, bad boolean token, failed
\* validation, working directory that cannot be created, failing external
\* command) ends the process with a nonzero exit status; only a run that
\* reaches the final cleanup exits with status zero.
C1_FailureExitsNonzero ==
    /\ Failed => exitStatus # 0
    /\ (pc = "exit" /\ exitStatus = 0) => Succeeded

----------------------------------------------------------------------------

UpperCase == "ABCDEFGHIJKLMNOPQRSTUVWXYZ"
LowerCase == "abcdefghijklmnopqrstuvwxyz"

LowerCh(c) ==
    IF \E k \in 1..26 : Ch(UpperCase, k) = c
    THEN Ch(LowerCase, CHOOSE k \in 1..26 : Ch(UpperCase, k) = c)
    ELSE c

RECURSIVE Lower(_)
Lower(s) == IF Len(s) = 0 THEN ""
            ELSE Lower(SubSeq(s, 1, Len(s) - 1)) \o LowerCh(Ch(s, Len(s)))

\* the loop has read a value for a boolean-valued flag
BoolPairRead ==
    /\ errkind # "usage"
    /\ arg \in {"-y", "-u", "-v"} \/ (arg = "-a" /\ val \notin {"msix", "MSIX"})

FlagValue ==
    CASE arg = "-y" -> pythonflag [] arg = "-u" -> guiflag
      [] arg = "-v" -> verbose [] arg = "-a" -> adminflag

FlagName ==
    CASE arg = "-y" -> "python" [] arg = "-u" -> "gui"
      [] arg = "-v" -> "verbose" [] arg = "-a" -> "admin"

BoolRejected ==
    /\ pc = "exit"
    /\ errkind = "bool"
    /\ diag = <<argv0 \o " ERROR: Unknown " \o FlagName \o " option: " \o val>>

\* C2 (as amended): for -y, -u, -v, and -a with a value other than msix or
\* MSIX, exactly the tokens yes, Yes, Y, y, on, 1, True, true parse to true
\* and exactly no, No, N, n, off, 0, False, false parse to false; every other
\* token, the other spellings in upper or mixed case among them, is a fatal
\* error whose diagnostic names the flag's keyword and the token.
C2_BoolVocabularyExact ==
    BoolPairRead =>
        IF val \in {"yes", "Yes", "Y", "y", "on", "1", "True", "true"}
        THEN errkind = "none" /\ FlagValue = TRUE
        ELSE IF val \in {"no", "No", "N", "n", "off", "0", "False", "false"}
        THEN errkind = "none" /\ FlagValue = FALSE
        ELSE BoolRejected

\* C2 (as stated): the vocabulary is accepted in any letter case.
C2_BoolVocabularyCaseless ==
    BoolPairRead =>
        IF Lower(val) \in {"yes", "y", "on", "1", "true"}
        THEN errkind = "none" /\ FlagValue = TRUE
        ELSE IF Lower(val) \in {"no", "n", "off", "0", "false"}
        THEN errkind = "none" /\ FlagValue = FALSE
        ELSE BoolRejected

C2_Witness ==
    /\ arg = "-y" /\ val = "YES"
    /\ BoolRejected
    /\ diag = <<"cmake-win-on-linux.py ERROR: Unknown python option: YES">>

----------------------------------------------------------------------------

\* the step is one iteration of the loop that consumed a pair
PairConsumed == pc = "parse" /\ pc' = "parse" /\ i' = i + 2

\* C3 (as amended): over every sequence of pairs, -a with the value msix or
\* MSIX sets adminInstall=false and msixPackage=true in the same step, every
\* other -a value clears msixPackage, no other flag changes it, and it starts
\* false; so msixPackage=true implies adminInstall=false throughout.
C3_MsixOnlyFromMsixToken ==
    /\ [](msixflag => ~adminflag)
    /\ []((pc = "parse" /\ i = 1) => ~msixflag)
    /\ [][/\ msixflag' # msixflag => PairConsumed /\ arg' = "-a"
          /\ (PairConsumed /\ arg' = "-a") =>
                IF val' \in {"msix", "MSIX"} THEN msixflag' /\ ~adminflag'
                ELSE ~msixflag']_vars

\* C3 (as stated): no input other than -a msix yields msixPackage=true.
C3_MsixOnlyFromLowercase ==
    (pc = "parse" /\ arg = "-a" /\ msixflag) => val = "msix"

C3_Witness ==
    /\ pc = "parse" /\ i >= 5
    /\ arg = "-a" /\ val = "MSIX"
    /\ msixflag /\ ~adminflag

----------------------------------------------------------------------------

HexAnyCase == HexLower \cup {"A", "B", "C", "D", "E", "F"}

\* the revisions the claim and the usage text (-r patch_<date>,
\* -r maintenance_<date>, -r <sha256>) name as accepted
ClaimedRevision(s) ==
    \/ s \in {"stable", "release", "develop", "maintenance"}
    \/ \E p \in {"patch_", "maintenance_", "stable_"} :
           StartsWith(s, p) /\ DatedTail(SubSeq(s, Len(p) + 1, Len(s)))
    \/ Len(s) = 40 /\ AllIn(s, HexAnyCase)

RevisionRejected ==
    /\ pc = "exit"
    /\ errkind = "validation"
    /\ diag = <<argv0 \o " ERROR: Unsupported revision flag " \o revflag>>

\* C4: the revision check accepts a revision if and only if it is one of the
\* keywords, a dated patch/maintenance tag, or a 40-character hexadecimal
\* hash; it rejects every other string with a fatal error.
C4_RevisionAcceptedIff ==
    /\ RevisionRejected => ~ClaimedRevision(revflag)
    /\ pc = "workdir" => ClaimedRevision(revflag)

----------------------------------------------------------------------------

NoSideEffect ==
    /\ ~dirExists /\ ~deletedOld
    /\ builddir = "" /\ files = {}
    /\ cmds = <<>> /\ downloads = <<>>

\* C5: a configuration with pythonSupport and guiSupport both true never gets
\* past the checks: the run ends in a fatal error, whatever the other flags
\* and the order or repetition of -y and -u; no working directory is created
\* and no external command is run.
C5_PythonGuiRejected ==
    (pythonflag /\ guiflag) =>
        /\ pc \in {"parse", "exit"}
        /\ pc = "exit" => errkind \in {"usage", "bool", "validation", "exception"}
        /\ NoSideEffect

C5_Witness ==
    /\ pythonflag /\ guiflag
    /\ pc = "exit" /\ errkind = "validation"
    /\ diag = <<argv0 \o " ERROR: May only include either Python or LAMMPS GUI">>
    /\ argc = 7

----------------------------------------------------------------------------

Base == "tmp-" \o bitflag \o "-" \o parflag \o "-" \o thrflag \o "-" \o revflag

\* C6: the working directory is named tmp-<bits>-<par>-<thr>-<rev> when
\* adminInstall is true, whatever python, gui and msix are; when it is false
\* the name carries exactly one suffix: -python if pythonSupport, else -gui if
\* guiSupport, else -msix if msixPackage, else -noadmin.
C6_BuildDirName ==
    builddir # "" =>
        /\ adminflag => builddir = cwd \o "/" \o Base
        /\ (~adminflag /\ pythonflag) => builddir = cwd \o "/" \o Base \o "-python"
        /\ (~adminflag /\ ~pythonflag /\ guiflag) =>
              builddir = cwd \o "/" \o Base \o "-gui"
        /\ (~adminflag /\ ~pythonflag /\ ~guiflag /\ msixflag) =>
              builddir = cwd \o "/" \o Base \o "-msix"
        /\ (~adminflag /\ ~pythonflag /\ ~guiflag /\ ~msixflag) =>
              builddir = cwd \o "/" \o Base \o "-noadmin"
        /\ (bitflag = "64" /\ parflag = "mpi" /\ thrflag = "omp"
            /\ revflag = "stable" /\ adminflag) =>
              Basename(builddir) = "tmp-64-mpi-omp-stable"
        /\ (bitflag = "64" /\ parflag = "mpi" /\ thrflag = "omp"
            /\ revflag = "stable" /\ ~adminflag /\ pythonflag) =>
              Basename(builddir) = "tmp-64-mpi-omp-stable-python"

C6_Witness ==
    /\ pc = "sync"
    /\ ~adminflag /\ pythonflag
    /\ builddir = "/home/builder/work/tmp-64-mpi-omp-stable-python"

----------------------------------------------------------------------------

Templates ==
    {"lammps-python.nsis", "lammps-gui.nsis", "lammps-admin.nsis",
     "lammps-msmpi.nsis", "lammps-msix.nsis", "lammps-noadmin.nsis"}

\* the conditions of the six templates, highest priority first
TemplateConditions ==
    << <<pythonflag, "lammps-python.nsis">>,
       <<guiflag, "lammps-gui.nsis">>,
       <<adminflag, "lammps-admin.nsis">>,
       <<parflag = "ms", "lammps-msmpi.nsis">>,
       <<msixflag, "lammps-msix.nsis">>,
       <<TRUE, "lammps-noadmin.nsis">> >>

\* C7: the installer template is the one of the highest-priority condition
\* that holds, in the order pythonSupport > guiSupport > adminInstall >
\* (parallelism = ms) > msixPackage > generic no-admin, also when conditions
\* of lower priority hold; exactly one of the six templates is chosen.
C7_TemplatePriority ==
    nsisfile # "" =>
        /\ Cardinality({t \in Templates :
                            nsisfile = homedir \o "/installer/" \o t}) = 1
        /\ \E n \in 1..6 :
              /\ TemplateConditions[n][1]
              /\ \A m \in 1..(n - 1) : ~TemplateConditions[m][1]
              /\ Basename(nsisfile) = TemplateConditions[n][2]

C7_Witness ==
    /\ parflag = "ms" /\ msixflag /\ ~adminflag
    /\ nsisfile = homedir \o "/installer/lammps-msmpi.nsis"
    /\ "lammps.nsis" \in files

----------------------------------------------------------------------------

\* C8: a run that ends in a usage error (unknown flag, missing value, bad
\* boolean token) or a validation error (bitness, parallelism, threading,
\* python with gui, revision) has deleted no earlier working directory,
\* created none, and invoked no external command or download.
C8_ErrorsBeforeSideEffects ==
    (pc = "exit" /\ errkind \in {"usage", "bool", "validation"}) => NoSideEffect

C8_Witness ==
    /\ pc = "exit" /\ errkind = "validation"
    /\ revflag = "foo"
    /\ diag = <<"cmake-win-on-linux.py ERROR: Unsupported revision flag foo">>
    /\ NoSideEffect

----------------------------------------------------------------------------

Last(seq) == seq[Len(seq)]

\* C9: when a command run through system() returns nonzero the run ends
\* there: the failed command is the last one invoked, nothing is invoked
\* afterwards and the working directory stays in place.  The directory is
\* removed only by the step that ends a run all of whose stages succeeded,
\* and every run that ends successfully has removed it, whatever verbose is.
C9_FailFastCleanupOnSuccess ==
    /\ [](errkind = "command" =>
            /\ pc = "exit"
            /\ dirExists
            /\ cmds # <<>>
            /\ diag[1] = "Command '" \o Last(cmds) \o "' returned non-zero exit status")
    /\ [](\A v \in BOOLEAN : (Succeeded /\ verbose = v) => ~dirExists)
    /\ [][/\ errkind = "command" => cmds' = cmds /\ dirExists' = dirExists
          /\ (dirExists /\ ~dirExists') =>
                /\ pc = "cleanup" /\ errkind = "none"
                /\ pc' = "exit" /\ errkind' = "none"]_vars

C9_Witness ==
    /\ pc = "exit" /\ errkind = "command"
    /\ verbose
    /\ Len(cmds) >= 3
    /\ dirExists

----------------------------------------------------------------------------

\* the README rename has run and returned zero: a later command was invoked
ReadmeRenamed == \E k \in 1..(Len(cmds) - 1) : cmds[k] = RenameReadmeCommand

\* C10 (as amended): the README rename is idempotent: applied a second time
\* to the tree its first application produced it renames nothing, since no
\* file below tools, bench, examples, potentials, python is named README any
\* more; no README.txt.txt arises.
C10_ReadmeRenameIdempotent ==
    ReadmeRenamed =>
        /\ RenameReadme(files) = files
        /\ \A p \in RenameReadme(files) : Basename(p) # "README.txt.txt"

\* C10 (as stated): a second application renames the files again and yields
\* README.txt.txt.
C10_ReadmeRenameDoubleSuffix ==
    (ReadmeRenamed /\ "potentials/README.txt" \in files) =>
        /\ RenameReadme(files) # files
        /\ \E p \in RenameReadme(files) : Basename(p) = "README.txt.txt"

C10_Witness ==
    /\ ReadmeRenamed
    /\ "potentials/README.txt" \in files
    /\ "potentials/README" \notin files
    /\ "examples/min/README.txt" \in files

----------------------------------------------------------------------------
(* Two invocations started from the same current directory.  Each has its    *)
(* validated flags and runs the steps of the script that touch the working   *)
(* directory: rmtree and mkdir at the start, the build stages in it, rmtree  *)
(* at the end.  The two share the filesystem and nothing else.               *)

Procs == {1, 2}

\* the flags the working directory and the build depend on, as they leave
\* the parser (msixflag is only set together with adminflag = False) and
\* pass the checks
ValidatedFlags ==
    {c \in [bitflag : {"32", "64", "16"}, parflag : {"no", "ms"},
            thrflag : {"omp", "no"}, revflag : {"stable", "patch_15Mar2024", "foo"},
            pythonflag : BOOLEAN, guiflag : BOOLEAN,
            adminflag : BOOLEAN, msixflag : BOOLEAN] :
        /\ ValidationError(c.bitflag, c.parflag, c.thrflag,
                           c.pythonflag, c.guiflag, c.revflag) = ""
        /\ c.msixflag => ~c.adminflag}

Init11 ==
    /\ InitRun
    /\ argc = 1
    /\ \E c1 \in ValidatedFlags : \E c2 \in ValidatedFlags :
         runs = << [flags |-> c1, pc |-> "workdir", builddir |-> ""],
                   [flags |-> c2, pc |-> "workdir", builddir |-> ""] >>
    /\ workdirs = {}
    /\ clobbered = {}

BuildDirOf(c) ==
    join(fullpath("."),
         BuildDirName(c.bitflag, c.parflag, c.thrflag, c.revflag,
                      c.adminflag, c.pythonflag, c.guiflag, c.msixflag))

\* the directories shutil.rmtree(dir, True) removes, and the invocations
\* other than p that were building in one of them
Removed(dir) == {d \in workdirs : d.name = dir}

Victims(p, dir) ==
    {d.owner : d \in {e \in Removed(dir) :
                        e.owner # p /\ runs[e.owner].pc \in {"build", "cleanup"}}}

\* builddir is computed; shutil.rmtree(builddir, True)
RunRmtree(p) ==
    /\ runs[p].pc = "workdir"
    /\ LET dir == BuildDirOf(runs[p].flags)
       IN  /\ workdirs' = workdirs \ Removed(dir)
           /\ clobbered' = clobbered \cup Victims(p, dir)
           /\ runs' = [runs EXCEPT ![p].builddir = dir, ![p].pc = "mkdir"]
    /\ UNCHANGED vars

\* os.mkdir(builddir), fatal when the directory exists (again) or cannot be made
RunMkdir(p) ==
    /\ runs[p].pc = "mkdir"
    /\ \E made \in BOOLEAN :
         IF made /\ Removed(runs[p].builddir) = {}
         THEN /\ workdirs' = workdirs \cup {[name |-> runs[p].builddir, owner |-> p]}
              /\ runs' = [runs EXCEPT ![p].pc = "build"]
         ELSE /\ runs' = [runs EXCEPT ![p].pc = "failed"]
              /\ UNCHANGED workdirs
    /\ UNCHANGED <<vars, clobbered>>

\* the stages from the git checkout to makensis: all succeed, or one fails
\* and the run ends with the directory left in place
RunBuild(p) ==
    /\ runs[p].pc = "build"
    /\ \E ok \in BOOLEAN :
         runs' = [runs EXCEPT ![p].pc = IF ok THEN "cleanup" ELSE "failed"]
    /\ UNCHANGED <<vars, workdirs, clobbered>>

\* shutil.rmtree(builddir, True) at the end of a successful run
RunCleanup(p) ==
    /\ runs[p].pc = "cleanup"
    /\ workdirs' = workdirs \ Removed(runs[p].builddir)
    /\ clobbered' = clobbered \cup Victims(p, runs[p].builddir)
    /\ runs' = [runs EXCEPT ![p].pc = "done"]
    /\ UNCHANGED vars

Next11 ==
    \E p \in Procs :
        \/ RunRmtree(p)
        \/ RunMkdir(p)
        \/ RunBuild(p)
        \/ RunCleanup(p)

Spec11 == Init11 /\ [][Next11]_<<vars, convars>>

\* C11: two invocations from the same directory whose validated flags differ
\* (in bitness, parallelism, threading, revision, pythonSupport, guiSupport,
\* adminInstall or msixPackage) compute different working-directory names, and
\* neither one's delete at the start or cleanup at the end removes the
\* directory the other is building in.
C11_DifferentFlagsDifferentDirs ==
    (runs # <<>> /\ runs[1].flags # runs[2].flags) =>
        /\ (runs[1].builddir # "" /\ runs[2].builddir # "") =>
              runs[1].builddir # runs[2].builddir
        /\ clobbered = {}

====
